---------------------------- MODULE Spec2Model ----------------------------
(***************************************************************************)
(* Model of barbican/plugin/interface/secret_store.py: the secret store    *)
(* plugin manager (SecretStorePluginManager), the guard decorator          *)
(* _enforce_extensions_configured, the capability predicates of the        *)
(* SecretStoreBase contract, and KeyAlgorithm.get_secret_type.             *)
(***************************************************************************)
EXTENDS Integers, Sequences, FiniteSets, TLC

VARIABLES
    extensions,   \* self.extensions: the ordered list of loaded backends
    op,           \* name of the last manager call made ("init" before any)
    args,         \* arguments of the last manager call
    result,       \* what the last manager call returned or raised
    invoked,      \* backend methods the manager invoked during the last call
    stored_by,    \* round trip: instance whose identity the caller recorded
    alg,          \* KeyAlgorithm.get_secret_type: the argument
    secret_type,  \* KeyAlgorithm.get_secret_type: the value returned
    threads       \* concurrent callers: each one's call, position and result

vars == <<extensions, op, args, result, invoked, stored_by, alg, secret_type,
         threads>>

(***************************************************************************)
(* Bounds.                                                                 *)
(***************************************************************************)
MaxExt == 2

(***************************************************************************)
(* Python's None, where it stands for an absent string.                    *)
(***************************************************************************)
None == "<None>"

(***************************************************************************)
(* Exceptions of the selection calls.                                      *)
(***************************************************************************)
SecretStorePluginNotFound == "SecretStorePluginNotFound"

SecretStoreSupportedPluginNotFound == "SecretStoreSupportedPluginNotFound"

SecretStorePluginsNotConfigured == "SecretStorePluginsNotConfigured"

(***************************************************************************)
(* KeySpec: only alg is set by the requests of the model.                  *)
(***************************************************************************)
KeySpec(a) == [alg |-> a, bit_length |-> None, mode |-> None, passphrase |-> None]

RequestAlgs == {"aes", "rsa", "ec"}

KeySpecs == {KeySpec(a) : a \in RequestAlgs}

(***************************************************************************)
(* Backends.  A backend instance is an entry of self.extensions; the       *)
(* instance (ext.obj) is identified by its position in the list.  Its      *)
(* class gives its fully-qualified name; its three capability              *)
(* predicates / queries are abstract in the contract, so each instance     *)
(* carries the answers its implementation gives: the algorithms it         *)
(* generates, the algorithms it stores (RSA only or AES only, never "ec")  *)
(* and its transport key.                                                  *)
(***************************************************************************)
Classes == {[module |-> "plugin", name |-> "A"], [module |-> "plugin", name |-> "B"]}

SupportSets == {{"rsa"}, {"aes"}}

TransportKeys == {None, "cert"}

Backends == [cls : Classes, generate_algs : SupportSets,
             store_algs : SupportSets, transport_key : TransportKeys]

generate_supports(obj, key_spec) == key_spec.alg \in obj.generate_algs

store_secret_supports(obj, key_spec) == key_spec.alg \in obj.store_algs

get_transport_key(obj) == obj.transport_key

\* utils.generate_fullname_for: module and class name of the instance, joined
generate_fullname_for(obj) == obj.cls.module \o "." \o obj.cls.name

\* Python's == between a str and an optional str
StrEq(s, t) == t # None /\ s = t

PluginNames == {None, "plugin.A", "plugin.B", "plugin.X"}

(***************************************************************************)
(* Outcomes of a call: the value returned (an instance, by position) or    *)
(* the exception raised, and the backend methods invoked on the way.       *)
(***************************************************************************)
Return(i) == [kind |-> "return", obj |-> i, exc |-> ""]

Raise(e) == [kind |-> "raise", obj |-> 0, exc |-> e]

NotCalledYet == [kind |-> "none", obj |-> 0, exc |-> ""]

Call(i, m) == [obj |-> i, method |-> m]

Outcome(r, calls) == [result |-> r, calls |-> calls]


(***************************************************************************)
(* The guard decorator: _check_plugins_configured raises when the list is  *)
(* empty and otherwise runs the decorated function (inner).                *)
(***************************************************************************)
enforce_unguarded(exts, inner) == inner

_enforce_extensions_configured(exts, inner) ==
    IF Len(exts) < 1
    THEN Outcome(Raise(SecretStorePluginsNotConfigured), <<>>)
    ELSE inner

(***************************************************************************)
(* for ext in self.extensions:                                             *)
(*     if utils.generate_fullname_for(ext.obj) == plugin_name:             *)
(*         return ext.obj                                                  *)
(* raise SecretStorePluginNotFound(plugin_name)                            *)
(* The loop body invokes no method of the backend.                         *)
(***************************************************************************)
RECURSIVE find_by_name(_, _, _)
find_by_name(exts, plugin_name, i) ==
    IF i > Len(exts)
    THEN Outcome(Raise(SecretStorePluginNotFound), <<>>)
    ELSE IF StrEq(generate_fullname_for(exts[i]), plugin_name)
         THEN Outcome(Return(i), <<>>)
         ELSE find_by_name(exts, plugin_name, i + 1)

(***************************************************************************)
(* for ext in self.extensions:                                             *)
(*     if ext.obj.store_secret_supports(key_spec):                         *)
(*         return ext.obj                                                  *)
(* raise SecretStoreSupportedPluginNotFound()                              *)
(***************************************************************************)
RECURSIVE store_loop_wrong_predicate(_, _, _, _)
store_loop_wrong_predicate(exts, key_spec, i, calls) ==
    IF i > Len(exts)
    THEN Outcome(Raise(SecretStoreSupportedPluginNotFound), calls)
    ELSE IF generate_supports(exts[i], key_spec)
         THEN Outcome(Return(i), Append(calls, Call(i, "generate_supports")))
         ELSE store_loop_wrong_predicate(exts, key_spec, i + 1,
                  Append(calls, Call(i, "generate_supports")))

RECURSIVE store_loop_storing(_, _, _, _)
store_loop_storing(exts, key_spec, i, calls) ==
    IF i > Len(exts)
    THEN Outcome(Raise(SecretStoreSupportedPluginNotFound), calls)
    ELSE IF store_secret_supports(exts[i], key_spec)
         THEN Outcome(Return(i), Append(calls, Call(i, "store_secret_supports")))
         ELSE store_loop_storing(exts, key_spec, i + 1,
                  Append(Append(calls, Call(i, "store_secret_supports")),
                         Call(i, "store_secret")))

RECURSIVE store_loop(_, _, _, _)
store_loop(exts, key_spec, i, calls) ==
    IF i > Len(exts)
    THEN Outcome(Raise(SecretStoreSupportedPluginNotFound), calls)
    ELSE IF store_secret_supports(exts[i], key_spec)
         THEN Outcome(Return(i), Append(calls, Call(i, "store_secret_supports")))
         ELSE store_loop(exts, key_spec, i + 1,
                  Append(calls, Call(i, "store_secret_supports")))

(***************************************************************************)
(* for ext in self.extensions:                                             *)
(*     if (ext.obj.get_transport_key() is not None and                     *)
(*             ext.obj.store_secret_supports(key_spec)):                   *)
(*         return ext.obj                                                  *)
(* raise SecretStoreSupportedPluginNotFound()                              *)
(* `and` short-circuits: store_secret_supports is invoked only on a        *)
(* backend that has a transport key.                                       *)
(***************************************************************************)
RECURSIVE transport_loop_no_key_check(_, _, _, _)
transport_loop_no_key_check(exts, key_spec, i, calls) ==
    IF i > Len(exts)
    THEN Outcome(Raise(SecretStoreSupportedPluginNotFound), calls)
    ELSE IF store_secret_supports(exts[i], key_spec)
         THEN Outcome(Return(i), Append(calls, Call(i, "store_secret_supports")))
         ELSE transport_loop_no_key_check(exts, key_spec, i + 1,
                  Append(calls, Call(i, "store_secret_supports")))

RECURSIVE transport_loop_or(_, _, _, _)
transport_loop_or(exts, key_spec, i, calls) ==
    LET c1 == Append(calls, Call(i, "get_transport_key"))
        c2 == Append(c1, Call(i, "store_secret_supports"))
    IN  IF i > Len(exts)
        THEN Outcome(Raise(SecretStoreSupportedPluginNotFound), calls)
        ELSE IF get_transport_key(exts[i]) # None
             THEN Outcome(Return(i), c1)
             ELSE IF store_secret_supports(exts[i], key_spec)
                  THEN Outcome(Return(i), c2)
                  ELSE transport_loop_or(exts, key_spec, i + 1, c2)

RECURSIVE transport_loop(_, _, _, _)
transport_loop(exts, key_spec, i, calls) ==
    LET c1 == Append(calls, Call(i, "get_transport_key"))
        c2 == Append(c1, Call(i, "store_secret_supports"))
    IN  IF i > Len(exts)
        THEN Outcome(Raise(SecretStoreSupportedPluginNotFound), calls)
        ELSE IF get_transport_key(exts[i]) = None
             THEN transport_loop(exts, key_spec, i + 1, c1)
             ELSE IF store_secret_supports(exts[i], key_spec)
                  THEN Outcome(Return(i), c2)
                  ELSE transport_loop(exts, key_spec, i + 1, c2)

(***************************************************************************)
(* for ext in self.extensions:                                             *)
(*     if ext.obj.generate_supports(key_spec):                             *)
(*         return ext.obj                                                  *)
(* raise SecretStoreSupportedPluginNotFound()                              *)
(***************************************************************************)
RECURSIVE generate_loop_last(_, _, _, _)
generate_loop_last(exts, key_spec, i, calls) ==
    LET j == Len(exts) + 1 - i
    IN  IF i > Len(exts)
        THEN Outcome(Raise(SecretStoreSupportedPluginNotFound), calls)
        ELSE IF generate_supports(exts[j], key_spec)
             THEN Outcome(Return(j), Append(calls, Call(j, "generate_supports")))
             ELSE generate_loop_last(exts, key_spec, i + 1,
                      Append(calls, Call(j, "generate_supports")))

RECURSIVE generate_loop(_, _, _, _)
generate_loop(exts, key_spec, i, calls) ==
    IF i > Len(exts)
    THEN Outcome(Raise(SecretStoreSupportedPluginNotFound), calls)
    ELSE IF generate_supports(exts[i], key_spec)
         THEN Outcome(Return(i), Append(calls, Call(i, "generate_supports")))
         ELSE generate_loop(exts, key_spec, i + 1,
                  Append(calls, Call(i, "generate_supports")))

(***************************************************************************)
(* SecretStorePluginManager.get_plugin_store                               *)
(***************************************************************************)
get_plugin_store_fallback(exts, key_spec, plugin_name, transport_key_needed) ==
    LET named == find_by_name(exts, plugin_name, 1)
    IN  IF plugin_name # None /\ named.result.kind = "return"
        THEN named
        ELSE IF ~transport_key_needed
             THEN store_loop(exts, key_spec, 1, <<>>)
             ELSE transport_loop(exts, key_spec, 1, <<>>)

get_plugin_store_named_transport(exts, key_spec, plugin_name, transport_key_needed) ==
    LET named == find_by_name(exts, plugin_name, 1)
    IN  IF plugin_name # None
        THEN IF /\ transport_key_needed
                /\ named.result.kind = "return"
                /\ get_transport_key(exts[named.result.obj]) = None
             THEN Outcome(Raise(SecretStoreSupportedPluginNotFound),
                          <<Call(named.result.obj, "get_transport_key")>>)
             ELSE named
        ELSE IF ~transport_key_needed
             THEN store_loop(exts, key_spec, 1, <<>>)
             ELSE transport_loop(exts, key_spec, 1, <<>>)

get_plugin_store_body(exts, key_spec, plugin_name, transport_key_needed) ==
    IF plugin_name # None
    THEN find_by_name(exts, plugin_name, 1)
    ELSE IF ~transport_key_needed
         THEN store_loop(exts, key_spec, 1, <<>>)
         ELSE transport_loop(exts, key_spec, 1, <<>>)

get_plugin_store(exts, key_spec, plugin_name, transport_key_needed) ==
    _enforce_extensions_configured(exts,
        get_plugin_store_body(exts, key_spec, plugin_name, transport_key_needed))

(***************************************************************************)
(* SecretStorePluginManager.get_plugin_retrieve_delete                     *)
(***************************************************************************)
get_plugin_retrieve_delete_first(exts, plugin_name) ==
    LET named == find_by_name(exts, plugin_name, 1)
    IN  IF named.result.kind = "return" THEN named ELSE Outcome(Return(1), <<>>)

get_plugin_retrieve_delete_body(exts, plugin_name) ==
    find_by_name(exts, plugin_name, 1)

get_plugin_retrieve_delete(exts, plugin_name) ==
    _enforce_extensions_configured(exts,
        get_plugin_retrieve_delete_body(exts, plugin_name))

(***************************************************************************)
(* SecretStorePluginManager.get_plugin_generate                            *)
(***************************************************************************)
get_plugin_generate_body(exts, key_spec) == generate_loop(exts, key_spec, 1, <<>>)

get_plugin_generate(exts, key_spec) ==
    _enforce_extensions_configured(exts, get_plugin_generate_body(exts, key_spec))

(***************************************************************************)
(* Strings of KeyAlgorithm.  A Python str is a sequence of characters, so  *)
(* that lower() is a conversion character by character.                    *)
(***************************************************************************)
UpperLetters == <<"A", "B", "C", "D", "E", "F", "G", "H", "I", "J", "K", "L", "M", "N", "O", "P", "Q", "R", "S", "T", "U", "V", "W", "X", "Y", "Z">>

LowerLetters == <<"a", "b", "c", "d", "e", "f", "g", "h", "i", "j", "k", "l", "m", "n", "o", "p", "q", "r", "s", "t", "u", "v", "w", "x", "y", "z">>

\* str.lower() on one character: an upper-case letter maps to its
\* lower-case letter, every other character is kept
LowerChar(c) ==
    IF \E k \in DOMAIN UpperLetters : UpperLetters[k] = c
    THEN LowerLetters[CHOOSE k \in DOMAIN UpperLetters : UpperLetters[k] = c]
    ELSE c

UpperChar(c) ==
    IF \E k \in DOMAIN LowerLetters : LowerLetters[k] = c
    THEN UpperLetters[CHOOSE k \in DOMAIN LowerLetters : LowerLetters[k] = c]
    ELSE c

lower(str) == [k \in DOMAIN str |-> LowerChar(str[k])]

(***************************************************************************)
(* SecretType and KeyAlgorithm constants.                                  *)
(***************************************************************************)
SYMMETRIC == "symmetric"

PUBLIC == "public"

PRIVATE == "private"

DIFFIE_HELLMAN == <<"d", "i", "f", "f", "i", "e", "_", "h", "e", "l", "l", "m", "a", "n">>

DSA == <<"d", "s", "a">>

RSA == <<"r", "s", "a">>

EC == <<"e", "c">>

HMACSHA1 == <<"h", "m", "a", "c", "s", "h", "a", "1">>

HMACSHA256 == <<"h", "m", "a", "c", "s", "h", "a", "2", "5", "6">>

HMACSHA348 == <<"h", "m", "a", "c", "s", "h", "a", "3", "4", "8">>

HMACSHA512 == <<"h", "m", "a", "c", "s", "h", "a", "5", "1", "2">>

AES == <<"a", "e", "s">>

DES == <<"d", "e", "s">>

DESEDE == <<"d", "e", "s", "e", "d", "e">>

ASYMMETRIC_ALGORITHMS == <<DIFFIE_HELLMAN, DSA, RSA, EC>>

SYMMETRIC_ALGORITHMS == <<AES, DES, DESEDE, HMACSHA1, HMACSHA256, HMACSHA348, HMACSHA512>>

\* Python's `x in list`
InList(x, list) == \E k \in DOMAIN list : list[k] = x

(***************************************************************************)
(* Python values passed as alg: a str, None, or an int.                    *)
(***************************************************************************)
PyStr(chars) == [type |-> "str", chars |-> chars, num |-> 0]

PyNone == [type |-> "NoneType", chars |-> <<>>, num |-> 0]

PyInt(n) == [type |-> "int", chars |-> <<>>, num |-> n]

\* truth value of a Python value
Truthy(v) ==
    CASE v.type = "str" -> Len(v.chars) > 0
      [] v.type = "int" -> v.num # 0
      [] OTHER -> FALSE

\* isinstance(v, six.string_types)
IsString(v) == v.type = "str"

(***************************************************************************)
(* KeyAlgorithm.get_secret_type: SYMMETRIC for a string whose lower-case   *)
(* form is in SYMMETRIC_ALGORITHMS, otherwise None (the explicit else, or  *)
(* falling off the end of the function).                                   *)
(***************************************************************************)
get_secret_type(a) ==
    IF Truthy(a) /\ IsString(a)
    THEN IF InList(lower(a.chars), SYMMETRIC_ALGORITHMS)
         THEN SYMMETRIC
         ELSE None
    ELSE None

(***************************************************************************)
(* Arguments given to get_secret_type: every algorithm constant, the       *)
(* spelling hmacsha384, an unrecognized name and the empty string, each    *)
(* in every letter case; None; and two ints.                               *)
(***************************************************************************)
CaseVariants(str) ==
    {[k \in DOMAIN str |-> IF k \in up THEN UpperChar(str[k]) ELSE str[k]] :
        up \in SUBSET (DOMAIN str)}

AlgNames ==
    {SYMMETRIC_ALGORITHMS[k] : k \in DOMAIN SYMMETRIC_ALGORITHMS}
    \cup {ASYMMETRIC_ALGORITHMS[k] : k \in DOMAIN ASYMMETRIC_ALGORITHMS}
    \cup {<<"h", "m", "a", "c", "s", "h", "a", "3", "8", "4">>,
          <<"f", "o", "o">>, <<>>}

AlgInputs ==
    {PyStr(c) : c \in UNION {CaseVariants(n) : n \in AlgNames}}
    \cup {PyNone, PyInt(0), PyInt(1)}

NotCalled == "<not called>"

(***************************************************************************)
(* Initial states: a manager constructed over any ordered list of at most  *)
(* MaxExt loaded backends (the list may be empty); no call made yet.       *)
(***************************************************************************)
ExtensionLists == UNION {[1..n -> Backends] : n \in 0..MaxExt}

\* no concurrent caller is modelled in the sequential specifications
NoThreads == <<>>

NoArgs == [key_spec |-> KeySpec(None), plugin_name |-> None,
           transport_key_needed |-> FALSE]

Init ==
    /\ extensions \in ExtensionLists
    /\ op = "init"
    /\ args = NoArgs
    /\ result = NotCalledYet
    /\ invoked = <<>>
    /\ stored_by = 0
    /\ alg = PyNone
    /\ secret_type = NotCalled
    /\ threads = NoThreads

(***************************************************************************)
(* A caller calls manager.get_plugin_store(key_spec, plugin_name,          *)
(* transport_key_needed).                                                  *)
(***************************************************************************)
GetPluginStore ==
    \E key_spec \in KeySpecs, plugin_name \in PluginNames,
       transport_key_needed \in BOOLEAN :
        LET out == get_plugin_store(extensions, key_spec, plugin_name,
                                    transport_key_needed)
        IN  /\ op' = "get_plugin_store"
            /\ args' = [key_spec |-> key_spec, plugin_name |-> plugin_name,
                        transport_key_needed |-> transport_key_needed]
            /\ result' = out.result
            /\ invoked' = out.calls
            /\ stored_by' = 0
            /\ UNCHANGED <<extensions, alg, secret_type, threads>>

(***************************************************************************)
(* A caller calls manager.get_plugin_retrieve_delete(plugin_name).         *)
(***************************************************************************)
GetPluginRetrieveDelete ==
    \E plugin_name \in PluginNames :
        LET out == get_plugin_retrieve_delete(extensions, plugin_name)
        IN  /\ op' = "get_plugin_retrieve_delete"
            /\ args' = [NoArgs EXCEPT !.plugin_name = plugin_name]
            /\ result' = out.result
            /\ invoked' = out.calls
            /\ stored_by' = 0
            /\ UNCHANGED <<extensions, alg, secret_type, threads>>

(***************************************************************************)
(* A caller calls manager.get_plugin_generate(key_spec).                   *)
(***************************************************************************)
GetPluginGenerate ==
    \E key_spec \in KeySpecs :
        LET out == get_plugin_generate(extensions, key_spec)
        IN  /\ op' = "get_plugin_generate"
            /\ args' = [NoArgs EXCEPT !.key_spec = key_spec]
            /\ result' = out.result
            /\ invoked' = out.calls
            /\ stored_by' = 0
            /\ UNCHANGED <<extensions, alg, secret_type, threads>>

(***************************************************************************)
(* Round trip of the caller: the backend b that get_plugin_store or        *)
(* get_plugin_generate has just returned did the work; the caller          *)
(* recorded generate_fullname_for(b) with the metadata and now asks        *)
(* get_plugin_retrieve_delete for the backend of that name.                *)
(***************************************************************************)
RoundTripRetrieve ==
    /\ op \in {"get_plugin_store", "get_plugin_generate"}
    /\ result.kind = "return"
    /\ LET recorded == generate_fullname_for(extensions[result.obj])
           out == get_plugin_retrieve_delete(extensions, recorded)
       IN  /\ op' = "round_trip"
           /\ args' = [NoArgs EXCEPT !.plugin_name = recorded]
           /\ result' = out.result
           /\ invoked' = out.calls
           /\ stored_by' = result.obj
           /\ UNCHANGED <<extensions, alg, secret_type, threads>>

Next ==
    \/ GetPluginStore
    \/ GetPluginRetrieveDelete
    \/ GetPluginGenerate
    \/ RoundTripRetrieve

Spec == Init /\ [][Next]_vars

(***************************************************************************)
(* KeyAlgorithm.get_secret_type on its own: the argument is drawn in the   *)
(* initial state and the call is applied to it once.                       *)
(***************************************************************************)
InitKeyAlgorithm ==
    /\ extensions = <<>>
    /\ op = "init"
    /\ args = NoArgs
    /\ result = NotCalledYet
    /\ invoked = <<>>
    /\ stored_by = 0
    /\ alg \in AlgInputs
    /\ secret_type = NotCalled
    /\ threads = NoThreads

GetSecretType ==
    /\ secret_type = NotCalled
    /\ secret_type' = get_secret_type(alg)
    /\ UNCHANGED <<extensions, op, args, result, invoked, stored_by, alg, threads>>

NextKeyAlgorithm == GetSecretType

SpecKeyAlgorithm == InitKeyAlgorithm /\ [][NextKeyAlgorithm]_vars

(***************************************************************************)
(* Concurrent callers.  Each thread runs one selection call at a time on   *)
(* the one manager, a step at a time: the guard of the decorator, then     *)
(* one iteration of the call's for loop per step, reading                  *)
(* self.extensions as it is at that step.  Threads interleave freely; no   *)
(* lock is taken by the code.                                              *)
(***************************************************************************)
NumThreads == 2

Threads == 1..NumThreads

ConcurrentBackends ==
    {[cls |-> [module |-> "plugin", name |-> "A"], generate_algs |-> {"rsa"},
      store_algs |-> {"rsa"}, transport_key |-> None],
     [cls |-> [module |-> "plugin", name |-> "A"], generate_algs |-> {"aes"},
      store_algs |-> {"aes"}, transport_key |-> None],
     [cls |-> [module |-> "plugin", name |-> "B"], generate_algs |-> {"aes"},
      store_algs |-> {"aes"}, transport_key |-> "cert"]}

ConcurrentLists == UNION {[1..n -> ConcurrentBackends] : n \in 0..MaxExt}

StoreCall(key_spec, plugin_name, transport_key_needed) ==
    [op |-> "get_plugin_store", key_spec |-> key_spec,
     plugin_name |-> plugin_name, transport_key_needed |-> transport_key_needed]

RetrieveDeleteCall(plugin_name) ==
    [op |-> "get_plugin_retrieve_delete", key_spec |-> KeySpec(None),
     plugin_name |-> plugin_name, transport_key_needed |-> FALSE]

GenerateCall(key_spec) ==
    [op |-> "get_plugin_generate", key_spec |-> key_spec,
     plugin_name |-> None, transport_key_needed |-> FALSE]

NoCall == [op |-> "init", key_spec |-> KeySpec(None), plugin_name |-> None,
           transport_key_needed |-> FALSE]

ConcurrentCalls ==
    {StoreCall(KeySpec("aes"), None, FALSE),
     StoreCall(KeySpec("aes"), None, TRUE),
     StoreCall(KeySpec("ec"), "plugin.B", FALSE),
     RetrieveDeleteCall("plugin.B"),
     GenerateCall(KeySpec("aes")),
     GenerateCall(KeySpec("ec"))}

IdleThread == [pc |-> "idle", call |-> NoCall, i |-> 0, result |-> NotCalledYet]

Finished(thread, r) == [thread EXCEPT !.pc = "done", !.i = 0, !.result = r]

Loops == {"by_name", "store", "transport", "generate"}

\* the for loop a call enters once the guard has passed
EntryLoop(call) ==
    CASE call.op = "get_plugin_retrieve_delete" -> "by_name"
      [] call.op = "get_plugin_generate" -> "generate"
      [] OTHER -> IF call.plugin_name # None THEN "by_name"
                  ELSE IF ~call.transport_key_needed THEN "store"
                  ELSE "transport"

\* the if of each loop, on the backend obj
LoopMatches(loop, obj, call) ==
    CASE loop = "by_name" -> StrEq(generate_fullname_for(obj), call.plugin_name)
      [] loop = "store" -> store_secret_supports(obj, call.key_spec)
      [] loop = "transport" -> /\ get_transport_key(obj) # None
                               /\ store_secret_supports(obj, call.key_spec)
      [] OTHER -> generate_supports(obj, call.key_spec)

\* the raise that follows each loop
LoopExhausted(loop) ==
    IF loop = "by_name" THEN SecretStorePluginNotFound
    ELSE SecretStoreSupportedPluginNotFound

InitConcurrent ==
    /\ extensions \in ConcurrentLists
    /\ op = "init"
    /\ args = NoArgs
    /\ result = NotCalledYet
    /\ invoked = <<>>
    /\ stored_by = 0
    /\ alg = PyNone
    /\ secret_type = NotCalled
    /\ threads = [t \in Threads |-> IdleThread]

\* thread t calls a selection method of the manager
BeginCall(t) ==
    /\ threads[t].pc \in {"idle", "done"}
    /\ \E call \in ConcurrentCalls :
           threads' = [threads EXCEPT ![t] =
               [pc |-> "guard", call |-> call, i |-> 0, result |-> NotCalledYet]]
    /\ UNCHANGED <<extensions, op, args, result, invoked, stored_by, alg, secret_type>>

\* _check_plugins_configured: if len(self.extensions) < 1: raise ...
CheckConfigured(t) ==
    /\ threads[t].pc = "guard"
    /\ threads' = [threads EXCEPT ![t] =
           IF Len(extensions) < 1
           THEN Finished(@, Raise(SecretStorePluginsNotConfigured))
           ELSE [@ EXCEPT !.pc = EntryLoop(threads[t].call), !.i = 1]]
    /\ UNCHANGED <<extensions, op, args, result, invoked, stored_by, alg, secret_type>>

\* a buggy iteration that consumes the shared list instead of advancing
\* the thread's own position
LoopStepConsuming(t) ==
    /\ threads[t].pc \in Loops
    /\ LET thread == threads[t]
       IN  IF thread.i > Len(extensions)
           THEN /\ threads' = [threads EXCEPT ![t] =
                       Finished(@, Raise(LoopExhausted(thread.pc)))]
                /\ UNCHANGED extensions
           ELSE IF LoopMatches(thread.pc, extensions[thread.i], thread.call)
                THEN /\ threads' = [threads EXCEPT ![t] =
                            Finished(@, Return(thread.i))]
                     /\ UNCHANGED extensions
                ELSE /\ extensions' = Tail(extensions)
                     /\ UNCHANGED threads
    /\ UNCHANGED <<op, args, result, invoked, stored_by, alg, secret_type>>

\* one iteration of `for ext in self.extensions`: the loop ends and the call
\* raises, or the backend matches and is returned, or the loop goes on
LoopStep(t) ==
    /\ threads[t].pc \in Loops
    /\ LET thread == threads[t]
       IN  threads' = [threads EXCEPT ![t] =
               IF thread.i > Len(extensions)
               THEN Finished(@, Raise(LoopExhausted(thread.pc)))
               ELSE IF LoopMatches(thread.pc, extensions[thread.i], thread.call)
                    THEN Finished(@, Return(thread.i))
                    ELSE [@ EXCEPT !.i = thread.i + 1]]
    /\ UNCHANGED <<extensions, op, args, result, invoked, stored_by, alg, secret_type>>

NextConcurrent ==
    \E t \in Threads :
        \/ BeginCall(t)
        \/ CheckConfigured(t)
        \/ LoopStep(t)

SpecConcurrent == InitConcurrent /\ [][NextConcurrent]_vars

(***************************************************************************)
(* Properties.  They are stated on the registered list itself (the         *)
(* fields of its entries), not through the operators of the manager.       *)
(***************************************************************************)
Registered == 1..Len(extensions)

\* the identity of the i-th registered instance
Identity(i) == extensions[i].cls.module \o "." \o extensions[i].cls.name

\* instances whose identity is the plugin_name of the last call
Named == {i \in Registered : args.plugin_name # None /\ Identity(i) = args.plugin_name}

\* instances whose store_secret_supports / generate_supports is true of the
\* key spec of the last call, and instances that have a transport key
StoreSupporters == {i \in Registered : args.key_spec.alg \in extensions[i].store_algs}

GenerateSupporters == {i \in Registered : args.key_spec.alg \in extensions[i].generate_algs}

WithTransportKey == {i \in Registered : extensions[i].transport_key # None}

Lowest(S) == CHOOSE i \in S : \A j \in S : i <= j

Returned(i) == result.kind = "return" /\ result.obj = i /\ result.exc = ""

Raised(e) == result.kind = "raise" /\ result.exc = e /\ result.obj = 0

\* the call returns the lowest-indexed instance of S, or raises e if S is empty
FirstOfOrRaise(S, e) == IF S = {} THEN Raised(e) ELSE Returned(Lowest(S))

SelectionOps == {"get_plugin_store", "get_plugin_retrieve_delete", "get_plugin_generate"}

C2_GenerateFirstSupporter ==
    (op = "get_plugin_generate" /\ Len(extensions) >= 1)
        => FirstOfOrRaise(GenerateSupporters, SecretStoreSupportedPluginNotFound)

C2_Witness ==
    /\ op = "get_plugin_generate"
    /\ Cardinality(GenerateSupporters) = 2
    /\ Returned(1)

\* C3: on a non-empty list get_plugin_store without plugin_name and without
\* transport key returns the lowest-indexed backend whose
\* store_secret_supports(key_spec) is true, and raises
\* SecretStoreSupportedPluginNotFound exactly when there is none.
C3_StoreFirstSupporter ==
    (/\ op = "get_plugin_store"
     /\ args.plugin_name = None
     /\ ~args.transport_key_needed
     /\ Len(extensions) >= 1)
        => FirstOfOrRaise(StoreSupporters, SecretStoreSupportedPluginNotFound)

C3_Witness ==
    /\ op = "get_plugin_store"
    /\ args.plugin_name = None
    /\ ~args.transport_key_needed
    /\ StoreSupporters = {2}
    /\ 1 \in GenerateSupporters
    /\ Returned(2)

\* C4: get_plugin_store with transport_key_needed (no plugin_name) returns
\* the lowest-indexed backend that has a transport key and supports storing
\* the key spec, raises SecretStoreSupportedPluginNotFound when there is
\* none, and so never returns a backend without a transport key.
C4_TransportKeyRequired ==
    (/\ op = "get_plugin_store"
     /\ args.plugin_name = None
     /\ args.transport_key_needed
     /\ Len(extensions) >= 1)
        => /\ FirstOfOrRaise(StoreSupporters \cap WithTransportKey,
                             SecretStoreSupportedPluginNotFound)
           /\ result.kind = "return" => result.obj \in WithTransportKey

C4_Witness ==
    /\ op = "get_plugin_store"
    /\ args.plugin_name = None
    /\ args.transport_key_needed
    /\ StoreSupporters = {1, 2}
    /\ WithTransportKey = {2}
    /\ Returned(2)

\* C5: on a non-empty list get_plugin_store with a plugin_name returns the
\* first backend of that identity whatever its capabilities, and raises
\* SecretStorePluginNotFound when no backend has it, even if some backend
\* supports the key spec.
C5_StoreByName ==
    (/\ op = "get_plugin_store"
     /\ args.plugin_name # None
     /\ Len(extensions) >= 1)
        => FirstOfOrRaise(Named, SecretStorePluginNotFound)

C5_Witness ==
    /\ op = "get_plugin_store"
    /\ args.plugin_name # None
    /\ args.transport_key_needed
    /\ Len(extensions) = 2
    /\ Returned(2)
    /\ StoreSupporters = {1}
    /\ WithTransportKey = {1}

\* C6: on a non-empty list get_plugin_retrieve_delete returns the first
\* backend whose identity is plugin_name, raises SecretStorePluginNotFound
\* when none has it (plugin_name None included), and consults no
\* capability predicate.
C6_RetrieveDeleteByName ==
    (op = "get_plugin_retrieve_delete" /\ Len(extensions) >= 1)
        => /\ FirstOfOrRaise(Named, SecretStorePluginNotFound)
           /\ invoked = <<>>

C6_Witness ==
    /\ op = "get_plugin_retrieve_delete"
    /\ args.plugin_name = None
    /\ Len(extensions) = 2
    /\ Raised(SecretStorePluginNotFound)

\* the key spec of the last call is supported by exactly one backend
OnlyStoreSupporter(b) == StoreSupporters = {b}

OnlyGenerateSupporter(b) == GenerateSupporters = {b}

\* C7 as stated: with exactly one backend supporting the key spec,
\* get_plugin_store (either value of transport_key_needed, no plugin_name)
\* and get_plugin_generate return that backend.
C7_Original ==
    \A b \in Registered :
        /\ (op = "get_plugin_store" /\ args.plugin_name = None
               /\ OnlyStoreSupporter(b)) => Returned(b)
        /\ (op = "get_plugin_generate" /\ OnlyGenerateSupporter(b)) => Returned(b)

\* C7 amended: with exactly one backend b supporting the key spec,
\* get_plugin_generate and get_plugin_store without transport key return b;
\* get_plugin_store with transport_key_needed returns b when b has a
\* transport key and raises SecretStoreSupportedPluginNotFound when it has
\* none; no other backend is ever returned.
C7_ExactlyOneSupporter ==
    \A b \in Registered :
        /\ (op = "get_plugin_store" /\ args.plugin_name = None
               /\ OnlyStoreSupporter(b))
             => IF args.transport_key_needed /\ b \notin WithTransportKey
                THEN Raised(SecretStoreSupportedPluginNotFound)
                ELSE Returned(b)
        /\ (op = "get_plugin_generate" /\ OnlyGenerateSupporter(b)) => Returned(b)

C7_Witness ==
    /\ op = "get_plugin_store"
    /\ args.plugin_name = None
    /\ args.transport_key_needed
    /\ OnlyStoreSupporter(2)
    /\ WithTransportKey = {1, 2}
    /\ Returned(2)

\* C8: round trip of the identity: get_plugin_retrieve_delete called with the
\* recorded identity of the backend that get_plugin_store or
\* get_plugin_generate returned gives back that very instance.
C8_RoundTripSameInstance ==
    op = "round_trip" => Returned(stored_by)

MutatingMethods == {"generate_symmetric_key", "generate_asymmetric_key",
                    "store_secret", "get_secret", "delete_secret"}

NoMutatingCall(calls) == \A k \in DOMAIN calls : calls[k].method \notin MutatingMethods

\* C9: a selection call that raises has invoked none of the mutating
\* operations on any backend, and no call changes the registered list.
C9_FailureWithoutSideEffects ==
    [][/\ result'.kind = "raise" => NoMutatingCall(invoked')
       /\ extensions' = extensions]_vars

C9_Witness ==
    /\ op = "get_plugin_store"
    /\ Raised(SecretStoreSupportedPluginNotFound)
    /\ Len(invoked) = 2
    /\ Len(extensions) = 2

\* lower-case name n written in any letter case
SameIgnoringCase(str, n) ==
    /\ Len(str) = Len(n)
    /\ \A k \in DOMAIN n : str[k] \in {n[k], UpperChar(n[k])}

SymmetricFamily ==
    {AES, DES, DESEDE, HMACSHA1, HMACSHA256,
     <<"h", "m", "a", "c", "s", "h", "a", "3", "8", "4">>, HMACSHA512}

\* C10: get_secret_type returns SYMMETRIC for AES, DES, DESede, HMAC-SHA1,
\* HMAC-SHA256, HMAC-SHA384 and HMAC-SHA512 written in any letter case.
C10_SymmetricFamilyClassified ==
    (/\ secret_type # NotCalled
     /\ alg.type = "str"
     /\ \E n \in SymmetricFamily : SameIgnoringCase(alg.chars, n))
        => secret_type = SYMMETRIC

\* the argument is a string of the symmetric family, in any letter case
InSymmetricFamily(v) ==
    /\ v.type = "str"
    /\ \E n \in SymmetricFamily : SameIgnoringCase(v.chars, n)

\* C11: for every argument outside the symmetric family (an asymmetric
\* algorithm, an unrecognized string, the empty string, None, a non-string)
\* get_secret_type returns None: never SYMMETRIC, PUBLIC or PRIVATE.
C11_OutsideFamilyUnknown ==
    (secret_type # NotCalled /\ ~InSymmetricFamily(alg))
        => secret_type = None

\* C13: get_plugin_store with a plugin_name on a non-empty list decides by
\* plugin_name and the registered identities alone: it invokes neither
\* store_secret_supports nor get_transport_key on any backend, and returns
\* the named backend (or raises SecretStorePluginNotFound) whatever key_spec
\* and transport_key_needed are.
C13_NamedStoreIgnoresCapabilities ==
    (/\ op = "get_plugin_store"
     /\ args.plugin_name # None
     /\ Len(extensions) >= 1)
        => /\ invoked = <<>>
           /\ IF Named = {}
              THEN Raised(SecretStorePluginNotFound)
              ELSE Returned(Lowest(Named))

C13_Witness ==
    /\ op = "get_plugin_store"
    /\ args.plugin_name = "plugin.B"
    /\ args.transport_key_needed
    /\ Len(extensions) = 1
    /\ StoreSupporters = {}
    /\ WithTransportKey = {}
    /\ Returned(1)
    /\ invoked = <<>>

\* what a call returns or raises when it runs alone on a manager
Alone(exts, call) ==
    CASE call.op = "get_plugin_store" ->
             get_plugin_store(exts, call.key_spec, call.plugin_name,
                              call.transport_key_needed).result
      [] call.op = "get_plugin_retrieve_delete" ->
             get_plugin_retrieve_delete(exts, call.plugin_name).result
      [] OTHER -> get_plugin_generate(exts, call.key_spec).result

\* C12: under every interleaving of concurrent selection calls the
\* registered list keeps its content and order, and every call that
\* completes has returned or raised what it returns or raises when run
\* alone on the manager.
C12_ConcurrentCallsAsAlone ==
    [][/\ extensions' = extensions
       /\ \A t \in DOMAIN threads' :
              threads'[t].pc = "done"
                  => threads'[t].result = Alone(extensions, threads'[t].call)]_vars

C12_Witness ==
    /\ Len(extensions) = 2
    /\ threads[1].pc = "transport"
    /\ threads[1].i = 2
    /\ threads[2].pc = "done"
    /\ threads[2].call.op = "get_plugin_generate"
    /\ threads[2].result = Return(2)

=============================================================================
